---- MODULE Spec2Model ----
(***************************************************************************)
(* Rectified-flow samplers (src/models/rf.py) and the Trainer's checkpoint *)
(* and EMA handling (src/trainer.py).                                      *)
(*                                                                         *)
(* Tensors are modelled as sequences over the batch dimension, one         *)
(* fixed-point number per sample: the real value v is stored as the        *)
(* integer v * Scale.  Two model objects, rf (RectifiedFlow) and lrf       *)
(* (LatentRectifiedFlow), are built around the same network and receive    *)
(* the same call with the same noise draw, and each runs its own code.     *)
(***************************************************************************)
EXTENDS Integers, Sequences, FiniteSets, TLC

VARIABLES
    net,        \* the velocity network: [id, num_classes]
    vae,        \* the autoencoder of lrf (which decoder it is)
    call,       \* the call in progress: method and arguments, or NoCall
    pc,         \* pc[o]: position of object o inside the called method
    z,          \* z[o]: the local z of sample / cond_sample
    images,     \* images[o]: the local list images
    t_span,     \* t_span[o]: the sequence the for loop iterates over
    queries,    \* queries[o]: the network queries made so far, in order
    decodes,    \* decodes[o]: the arguments of the decode calls made so far
    result,     \* result[o]: what the call returned, or None
    hp,             \* Trainer's hyperparameters: n_steps, the two intervals, use_ema
    step,           \* Trainer.step
    params,         \* the parameters of Trainer.model
    opt,            \* the optimizer's state
    scaler,         \* the state of accelerator.scaler, or None
    ema,            \* model_ema: [shadow, collected]
    ckpt_paths,     \* Trainer.ckpt_paths, a path named by the step in its file name
    disk,           \* the checkpoint files in log_dir: path -> state_dict
    tpc,            \* position inside Trainer.train, or "idle" between calls
    iters,          \* iterations left in the running train()
    outcome,        \* the last finished Trainer call and the exception it raised
    loaded,         \* the state_dict torch.load read in the last call, or None
    entry_params    \* history: the model's parameters when ema_scope was last entered

samplerVars == <<net, vae, call, pc, z, images, t_span, queries, decodes, result>>
trainerVars == <<hp, step, params, opt, scaler, ema, ckpt_paths, disk, tpc,
                 iters, outcome, loaded, entry_params>>
vars == <<samplerVars, trainerVars>>

\* Python's None and a value that is not None: a sequence of length 0 or 1.
None == <<>>
Some(v) == <<v>>
Val(o) == o[1]
\* num_classes of a network without conditional capability (None in the code)
NoClasses == 0 - 1
NoCall == [method |-> "none"]

(* ------------------------------ bounds -------------------------------- *)
MaxSteps == 3
MaxBatch == 2

RECURSIVE Factorial(_)
Factorial(n) == IF n <= 1 THEN 1 ELSE n * Factorial(n - 1)

\* The fixed-point unit: every k in 1..MaxSteps divides Scale \div 2.
Scale == 2 * Factorial(MaxSteps)

Objs == {"rf", "lrf"}
NetIds == {"lin", "cls"}
VaeIds == {"same", "flip"}
NoiseVals == {0 - 2 * Scale, Scale \div 2}
CfgScales == {1, 5}
ClassIds == {0, 1}

(* --------------------------- tensor helpers --------------------------- *)
Vec(n, S) == [1..n -> S]
VecSub(a, b) == [i \in 1..Len(a) |-> a[i] - b[i]]
VecDiv(a, n) == [i \in 1..Len(a) |-> a[i] \div n]

Clip(x, lo, hi) == IF x < lo THEN lo ELSE IF x > hi THEN hi ELSE x
\* Faulty variant of ClipTensor: no clipping
ClipTensorNone(v) == v
\* tensor.clip(-1, 1)
ClipTensor(v) == [i \in 1..Len(v) |-> Clip(v[i], 0 - Scale, Scale)]

unnormalize_to_0_1(v) == [i \in 1..Len(v) |-> (v[i] + Scale) \div 2]
normalize_to_neg1_1(v) == [i \in 1..Len(v) |-> 2 * v[i] - Scale]

\* Faulty variant of linspace: one point too many, steps + 1 values from 0 to 1
linspace_extra(steps) ==
    IF steps = 0 THEN <<>>
    ELSE [i \in 1..(steps + 1) |-> ((i - 1) * Scale) \div steps]

\* torch.linspace(0, 1, steps): steps values, the first 0 and the last 1;
\* the single value 0 when steps = 1, nothing when steps = 0.
linspace(steps) ==
    [i \in 1..steps |-> IF steps = 1 THEN 0 ELSE ((i - 1) * Scale) \div (steps - 1)]
\* Faulty variant of reversed: the sequence is left in ascending order
reversed_not(s) == s
\* reversed(t_span)
reversed(s) == [i \in 1..Len(s) |-> s[Len(s) + 1 - i]]

\* z - v_t / sampling_steps
Euler(zz, v_t, sampling_steps) == VecSub(zz, VecDiv(v_t, sampling_steps))

(* ----------------------------- the network ---------------------------- *)
\* One sample's velocity from a network of the family; c is a class or None.
NetEval(id, zi, t, c) ==
    IF id = "lin" THEN zi + t
    ELSE (IF c = None THEN 0 - Scale ELSE (Val(c) + 1) * Scale) - t

\* net(z, t) and net(z, t, c): t is one value per call here (a scalar, or the
\* scalar repeated over the batch).
NetCall(zz, t, c) ==
    [i \in 1..Len(zz) |-> NetEval(net.id, zz[i], t, IF c = None THEN None ELSE Some(Val(c)[i]))]

\* net.forward_with_cfg(z, t, y, cfg_scale)
ForwardWithCfg(zz, t, y, cfg_scale) ==
    [i \in 1..Len(zz) |->
        LET u == NetEval(net.id, zz[i], t, None)
            c == NetEval(net.id, zz[i], t, Some(y[i]))
        IN  u + cfg_scale * (c - u)]

\* Faulty variant of use_cond: the capability flag is never set
use_cond_never == FALSE
\* self.use_cond = self.net.num_classes is not None
use_cond == net.num_classes # NoClasses

(* --------------------------- the autoencoder -------------------------- *)
LatentScaleNum == 13025
LatentScaleDen == 100000

VaeDecode(id, x) == IF id = "same" THEN x ELSE Scale - x
\* decode(x) = vae.decode(x / 0.13025).sample
decode(v) ==
    [i \in 1..Len(v) |-> VaeDecode(vae, (v[i] * LatentScaleDen) \div LatentScaleNum)]
\* encode(x) = vae.encode(x).latent_dist.sample().mul_(0.13025); eps is the draw
encode(v, eps) ==
    [i \in 1..Len(v) |->
        ((VaeDecode(vae, v[i]) + eps) * LatentScaleNum) \div LatentScaleDen]

(* ------------------------------- calls -------------------------------- *)
XVals == {0, Scale}
TDraws == {Scale \div 4, Scale \div 2}
EncDraws == {0, Scale \div 2}

RECURSIVE SumSeq(_)
SumSeq(s) == IF Len(s) = 0 THEN 0 ELSE Head(s) + SumSeq(Tail(s))

\* F.mse_loss(target, v_t): the mean of the squared differences
mse_loss(target, v_t) ==
    SumSeq([i \in 1..Len(target) |->
              ((target[i] - v_t[i]) * (target[i] - v_t[i])) \div Scale])
        \div Len(target)

Query(fn, zz, t, c, cfg) == [fn |-> fn, z |-> zz, t |-> t, c |-> c, cfg |-> cfg]

\* The caller: sample(batch_size, device, sampling_steps, return_all_steps) on
\* both objects, with the same draw of torch.randn.
InvokeSample ==
    /\ call = NoCall
    /\ \E b \in 0..MaxBatch, n \in 0..MaxSteps, ret \in BOOLEAN :
         \E noise \in Vec(b, NoiseVals) :
            call' = [method |-> "sample", batch_size |-> b, sampling_steps |-> n,
                     return_all_steps |-> ret, noise |-> noise]
    /\ pc' = [o \in Objs |-> "called"]
    /\ UNCHANGED <<net, vae, z, images, t_span, queries, decodes, result>>
    /\ UNCHANGED trainerVars

\* The caller: cond_sample(classes, device, sampling_steps, cfg_scale,
\* return_all_steps) on both objects.
InvokeCondSample ==
    /\ call = NoCall
    /\ \E b \in 0..MaxBatch, n \in 0..MaxSteps, ret \in BOOLEAN, cfg \in CfgScales :
         \E noise \in Vec(b, NoiseVals), classes \in Vec(b, ClassIds) :
            call' = [method |-> "cond_sample", classes |-> classes,
                     sampling_steps |-> n, cfg_scale |-> cfg,
                     return_all_steps |-> ret, noise |-> noise]
    /\ pc' = [o \in Objs |-> "called"]
    /\ UNCHANGED <<net, vae, z, images, t_span, queries, decodes, result>>
    /\ UNCHANGED trainerVars

\* The caller: forward(x, c) on both objects; c is None or one label per sample.
InvokeForward ==
    /\ call = NoCall
    /\ \E b \in 1..MaxBatch, hasC \in BOOLEAN :
         \E x \in Vec(b, XVals), noise \in Vec(b, NoiseVals), labels \in Vec(b, ClassIds) :
            call' = [method |-> "forward", x |-> x,
                     c |-> IF hasC THEN Some(labels) ELSE None, noise |-> noise]
    /\ pc' = [o \in Objs |-> "called"]
    /\ UNCHANGED <<net, vae, z, images, t_span, queries, decodes, result>>
    /\ UNCHANGED trainerVars

(* --------------------------- RectifiedFlow ---------------------------- *)
\* forward, rf.py 27-42
RF_forward ==
    /\ pc["rf"] = "called" /\ call.method = "forward"
    /\ IF use_cond /\ call.c = None
       THEN /\ pc' = [pc EXCEPT !["rf"] = "AssertionError"]
            /\ UNCHANGED <<queries, result>>
       ELSE \E t \in Vec(Len(call.x), TDraws) :
              LET zn == call.noise
                  x == normalize_to_neg1_1(call.x)
                  z_t == [i \in 1..Len(x) |->
                            ((Scale - t[i]) * x[i] + t[i] * zn[i]) \div Scale]
                  v_t == [i \in 1..Len(x) |->
                            NetEval(net.id, z_t[i], t[i],
                                    IF call.c = None THEN None ELSE Some(Val(call.c)[i]))]
                  target == VecSub(zn, x)
              IN  /\ queries' = [queries EXCEPT !["rf"] =
                                   Append(@, Query("net", z_t, t, call.c, None))]
                  /\ result' = [result EXCEPT !["rf"] = Some([loss |-> mse_loss(target, v_t)])]
                  /\ pc' = [pc EXCEPT !["rf"] = "done"]
    /\ UNCHANGED <<net, vae, call, z, images, t_span, decodes>>
    /\ UNCHANGED trainerVars

\* Variant of RF_sample_begin that rejects sampling_steps = 0
RF_sample_begin_guarded ==
    /\ pc["rf"] = "called" /\ call.method = "sample"
    /\ IF call.sampling_steps = 0
       THEN /\ pc' = [pc EXCEPT !["rf"] = "ValueError"]
            /\ UNCHANGED <<z, images, t_span>>
       ELSE /\ z' = [z EXCEPT !["rf"] = call.noise]
            /\ images' = [images EXCEPT !["rf"] = <<call.noise>>]
            /\ t_span' = [t_span EXCEPT !["rf"] = reversed(linspace(call.sampling_steps))]
            /\ pc' = [pc EXCEPT !["rf"] = "loop"]
    /\ UNCHANGED <<net, vae, call, queries, decodes, result>>
    /\ UNCHANGED trainerVars

\* sample, rf.py 46-52: the noise draw, images = [z], t_span
RF_sample_begin ==
    /\ pc["rf"] = "called" /\ call.method = "sample"
    /\ z' = [z EXCEPT !["rf"] = call.noise]
    /\ images' = [images EXCEPT !["rf"] = <<call.noise>>]
    /\ t_span' = [t_span EXCEPT !["rf"] = reversed(linspace(call.sampling_steps))]
    /\ pc' = [pc EXCEPT !["rf"] = "loop"]
    /\ UNCHANGED <<net, vae, call, queries, decodes, result>>
    /\ UNCHANGED trainerVars

\* sample, rf.py 53-56: one iteration of the for loop
RF_sample_iter ==
    /\ pc["rf"] = "loop" /\ call.method = "sample"
    /\ Len(queries["rf"]) < Len(t_span["rf"])
    /\ LET t == t_span["rf"][Len(queries["rf"]) + 1]
           v_t == NetCall(z["rf"], t, None)
           zn == Euler(z["rf"], v_t, call.sampling_steps)
       IN  /\ queries' = [queries EXCEPT !["rf"] =
                            Append(@, Query("net", z["rf"], t, None, None))]
           /\ z' = [z EXCEPT !["rf"] = zn]
           /\ images' = [images EXCEPT !["rf"] = Append(@, zn)]
    /\ UNCHANGED <<net, vae, call, pc, t_span, decodes, result>>
    /\ UNCHANGED trainerVars

\* sample, rf.py 58-62: clip, remap, return
RF_sample_end ==
    /\ pc["rf"] = "loop" /\ call.method = "sample"
    /\ Len(queries["rf"]) = Len(t_span["rf"])
    /\ LET zf == unnormalize_to_0_1(ClipTensor(z["rf"]))
       IN  /\ z' = [z EXCEPT !["rf"] = zf]
           /\ result' = [result EXCEPT !["rf"] =
                Some([z |-> zf,
                 all_steps |->
                    IF call.return_all_steps
                    THEN Some([i \in 1..Len(images["rf"]) |->
                            unnormalize_to_0_1(ClipTensor(images["rf"][i]))])
                    ELSE None])]
    /\ pc' = [pc EXCEPT !["rf"] = "done"]
    /\ UNCHANGED <<net, vae, call, images, t_span, queries, decodes>>
    /\ UNCHANGED trainerVars

\* cond_sample, rf.py 68-76: the assertion, y, the noise draw, images, t_span
RF_cond_sample_begin ==
    /\ pc["rf"] = "called" /\ call.method = "cond_sample"
    /\ IF ~use_cond
       THEN /\ pc' = [pc EXCEPT !["rf"] = "AssertionError"]
            /\ UNCHANGED <<z, images, t_span>>
       ELSE /\ z' = [z EXCEPT !["rf"] = call.noise]
            /\ images' = [images EXCEPT !["rf"] = <<call.noise>>]
            /\ t_span' = [t_span EXCEPT !["rf"] = reversed(linspace(call.sampling_steps))]
            /\ pc' = [pc EXCEPT !["rf"] = "loop"]
    /\ UNCHANGED <<net, vae, call, queries, decodes, result>>
    /\ UNCHANGED trainerVars

\* cond_sample, rf.py 77-81: one iteration of the for loop
RF_cond_sample_iter ==
    /\ pc["rf"] = "loop" /\ call.method = "cond_sample"
    /\ Len(queries["rf"]) < Len(t_span["rf"])
    /\ LET t0 == t_span["rf"][Len(queries["rf"]) + 1]
           t == [i \in 1..Len(z["rf"]) |-> t0]
           v_t == ForwardWithCfg(z["rf"], t0, call.classes, call.cfg_scale)
           zn == Euler(z["rf"], v_t, call.sampling_steps)
       IN  /\ queries' = [queries EXCEPT !["rf"] =
                            Append(@, Query("forward_with_cfg", z["rf"], t,
                                            Some(call.classes), Some(call.cfg_scale)))]
           /\ z' = [z EXCEPT !["rf"] = zn]
           /\ images' = [images EXCEPT !["rf"] = Append(@, zn)]
    /\ UNCHANGED <<net, vae, call, pc, t_span, decodes, result>>
    /\ UNCHANGED trainerVars

\* cond_sample, rf.py 83-87: clip, remap, return
RF_cond_sample_end ==
    /\ pc["rf"] = "loop" /\ call.method = "cond_sample"
    /\ Len(queries["rf"]) = Len(t_span["rf"])
    /\ LET zf == unnormalize_to_0_1(ClipTensor(z["rf"]))
       IN  /\ z' = [z EXCEPT !["rf"] = zf]
           /\ result' = [result EXCEPT !["rf"] =
                Some([z |-> zf,
                 all_steps |->
                    IF call.return_all_steps
                    THEN Some([i \in 1..Len(images["rf"]) |->
                            unnormalize_to_0_1(ClipTensor(images["rf"][i]))])
                    ELSE None])]
    /\ pc' = [pc EXCEPT !["rf"] = "done"]
    /\ UNCHANGED <<net, vae, call, images, t_span, queries, decodes>>
    /\ UNCHANGED trainerVars

(* ------------------------- LatentRectifiedFlow ------------------------ *)
\* forward, rf.py 117-133
LRF_forward ==
    /\ pc["lrf"] = "called" /\ call.method = "forward"
    /\ IF use_cond /\ call.c = None
       THEN /\ pc' = [pc EXCEPT !["lrf"] = "AssertionError"]
            /\ UNCHANGED <<queries, result>>
       ELSE \E t \in Vec(Len(call.x), TDraws), eps \in EncDraws :
              LET x == encode(normalize_to_neg1_1(call.x), eps)
                  zn == call.noise
                  z_t == [i \in 1..Len(x) |->
                            ((Scale - t[i]) * x[i] + t[i] * zn[i]) \div Scale]
                  v_t == [i \in 1..Len(x) |->
                            NetEval(net.id, z_t[i], t[i],
                                    IF call.c = None THEN None ELSE Some(Val(call.c)[i]))]
                  target == VecSub(zn, x)
              IN  /\ queries' = [queries EXCEPT !["lrf"] =
                                   Append(@, Query("net", z_t, t, call.c, None))]
                  /\ result' = [result EXCEPT !["lrf"] = Some([loss |-> mse_loss(target, v_t)])]
                  /\ pc' = [pc EXCEPT !["lrf"] = "done"]
    /\ UNCHANGED <<net, vae, call, z, images, t_span, decodes>>
    /\ UNCHANGED trainerVars

\* sample, rf.py 137-143
LRF_sample_begin ==
    /\ pc["lrf"] = "called" /\ call.method = "sample"
    /\ z' = [z EXCEPT !["lrf"] = call.noise]
    /\ images' = [images EXCEPT !["lrf"] = <<call.noise>>]
    /\ t_span' = [t_span EXCEPT !["lrf"] = reversed(linspace(call.sampling_steps))]
    /\ pc' = [pc EXCEPT !["lrf"] = "loop"]
    /\ UNCHANGED <<net, vae, call, queries, decodes, result>>
    /\ UNCHANGED trainerVars

\* Faulty variant of LRF_sample_iter: z is decoded inside the loop
LRF_sample_iter_decoding ==
    /\ pc["lrf"] = "loop" /\ call.method = "sample"
    /\ Len(queries["lrf"]) < Len(t_span["lrf"])
    /\ LET t == t_span["lrf"][Len(queries["lrf"]) + 1]
           v_t == NetCall(z["lrf"], t, None)
           zn == decode(Euler(z["lrf"], v_t, call.sampling_steps))
       IN  /\ queries' = [queries EXCEPT !["lrf"] =
                            Append(@, Query("net", z["lrf"], t, None, None))]
           /\ z' = [z EXCEPT !["lrf"] = zn]
           /\ images' = [images EXCEPT !["lrf"] = Append(@, zn)]
           /\ decodes' = [decodes EXCEPT !["lrf"] = Append(@, zn)]
    /\ UNCHANGED <<net, vae, call, pc, t_span, result>>
    /\ UNCHANGED trainerVars

\* sample, rf.py 144-147: one iteration of the for loop
LRF_sample_iter ==
    /\ pc["lrf"] = "loop" /\ call.method = "sample"
    /\ Len(queries["lrf"]) < Len(t_span["lrf"])
    /\ LET t == t_span["lrf"][Len(queries["lrf"]) + 1]
           v_t == NetCall(z["lrf"], t, None)
           zn == Euler(z["lrf"], v_t, call.sampling_steps)
       IN  /\ queries' = [queries EXCEPT !["lrf"] =
                            Append(@, Query("net", z["lrf"], t, None, None))]
           /\ z' = [z EXCEPT !["lrf"] = zn]
           /\ images' = [images EXCEPT !["lrf"] = Append(@, zn)]
    /\ UNCHANGED <<net, vae, call, pc, t_span, decodes, result>>
    /\ UNCHANGED trainerVars

\* sample, rf.py 149-156: decode, clip, remap, return
LRF_sample_end ==
    /\ pc["lrf"] = "loop" /\ call.method = "sample"
    /\ Len(queries["lrf"]) = Len(t_span["lrf"])
    /\ LET zf == unnormalize_to_0_1(ClipTensor(decode(z["lrf"])))
       IN  /\ z' = [z EXCEPT !["lrf"] = zf]
           /\ result' = [result EXCEPT !["lrf"] =
                Some([z |-> zf,
                 all_steps |->
                    IF call.return_all_steps
                    THEN Some([i \in 1..Len(images["lrf"]) |->
                            unnormalize_to_0_1(ClipTensor(decode(images["lrf"][i])))])
                    ELSE None])]
           /\ decodes' = [decodes EXCEPT !["lrf"] =
                IF call.return_all_steps
                THEN <<z["lrf"]>> \o images["lrf"]
                ELSE <<z["lrf"]>>]
    /\ pc' = [pc EXCEPT !["lrf"] = "done"]
    /\ UNCHANGED <<net, vae, call, images, t_span, queries>>
    /\ UNCHANGED trainerVars

\* cond_sample, rf.py 162-170
LRF_cond_sample_begin ==
    /\ pc["lrf"] = "called" /\ call.method = "cond_sample"
    /\ IF ~use_cond
       THEN /\ pc' = [pc EXCEPT !["lrf"] = "AssertionError"]
            /\ UNCHANGED <<z, images, t_span>>
       ELSE /\ z' = [z EXCEPT !["lrf"] = call.noise]
            /\ images' = [images EXCEPT !["lrf"] = <<call.noise>>]
            /\ t_span' = [t_span EXCEPT !["lrf"] = reversed(linspace(call.sampling_steps))]
            /\ pc' = [pc EXCEPT !["lrf"] = "loop"]
    /\ UNCHANGED <<net, vae, call, queries, decodes, result>>
    /\ UNCHANGED trainerVars

\* cond_sample, rf.py 171-175: one iteration of the for loop
LRF_cond_sample_iter ==
    /\ pc["lrf"] = "loop" /\ call.method = "cond_sample"
    /\ Len(queries["lrf"]) < Len(t_span["lrf"])
    /\ LET t0 == t_span["lrf"][Len(queries["lrf"]) + 1]
           t == [i \in 1..Len(z["lrf"]) |-> t0]
           v_t == ForwardWithCfg(z["lrf"], t0, call.classes, call.cfg_scale)
           zn == Euler(z["lrf"], v_t, call.sampling_steps)
       IN  /\ queries' = [queries EXCEPT !["lrf"] =
                            Append(@, Query("forward_with_cfg", z["lrf"], t,
                                            Some(call.classes), Some(call.cfg_scale)))]
           /\ z' = [z EXCEPT !["lrf"] = zn]
           /\ images' = [images EXCEPT !["lrf"] = Append(@, zn)]
    /\ UNCHANGED <<net, vae, call, pc, t_span, decodes, result>>
    /\ UNCHANGED trainerVars

\* cond_sample, rf.py 177-184: decode, clip, remap, return
LRF_cond_sample_end ==
    /\ pc["lrf"] = "loop" /\ call.method = "cond_sample"
    /\ Len(queries["lrf"]) = Len(t_span["lrf"])
    /\ LET zf == unnormalize_to_0_1(ClipTensor(decode(z["lrf"])))
       IN  /\ z' = [z EXCEPT !["lrf"] = zf]
           /\ result' = [result EXCEPT !["lrf"] =
                Some([z |-> zf,
                 all_steps |->
                    IF call.return_all_steps
                    THEN Some([i \in 1..Len(images["lrf"]) |->
                            unnormalize_to_0_1(ClipTensor(decode(images["lrf"][i])))])
                    ELSE None])]
           /\ decodes' = [decodes EXCEPT !["lrf"] =
                IF call.return_all_steps
                THEN <<z["lrf"]>> \o images["lrf"]
                ELSE <<z["lrf"]>>]
    /\ pc' = [pc EXCEPT !["lrf"] = "done"]
    /\ UNCHANGED <<net, vae, call, images, t_span, queries>>
    /\ UNCHANGED trainerVars

(* --------------------------- specification ---------------------------- *)
\* No Trainer takes part in this specification.
TrainerParked ==
    /\ hp = [n_steps |-> 1, save_and_sample_interval |-> 1, fid_eval_interval |-> 1,
             use_ema |-> FALSE]
    /\ step = 0 /\ params = 0 /\ opt = 0 /\ scaler = None
    /\ ema = [shadow |-> 0, collected |-> None]
    /\ ckpt_paths = <<>> /\ disk = <<>> /\ tpc = "idle" /\ iters = 0
    /\ outcome = [call |-> "none", exc |-> "None"]
    /\ loaded = None /\ entry_params = None

\* After construction of rf and lrf around one network (rf.py 13-25, 99-107).
Init ==
    /\ net \in [id : NetIds, num_classes : {NoClasses, 2}]
    /\ vae \in VaeIds
    /\ call = NoCall
    /\ pc = [o \in Objs |-> "idle"]
    /\ z = [o \in Objs |-> None]
    /\ images = [o \in Objs |-> <<>>]
    /\ t_span = [o \in Objs |-> <<>>]
    /\ queries = [o \in Objs |-> <<>>]
    /\ decodes = [o \in Objs |-> <<>>]
    /\ result = [o \in Objs |-> None]
    /\ TrainerParked

Next ==
    \/ InvokeSample
    \/ InvokeCondSample
    \/ InvokeForward
    \/ RF_forward
    \/ RF_sample_begin
    \/ RF_sample_iter
    \/ RF_sample_end
    \/ RF_cond_sample_begin
    \/ RF_cond_sample_iter
    \/ RF_cond_sample_end
    \/ LRF_forward
    \/ LRF_sample_begin
    \/ LRF_sample_iter
    \/ LRF_sample_end
    \/ LRF_cond_sample_begin
    \/ LRF_cond_sample_iter
    \/ LRF_cond_sample_end

Spec == Init /\ [][Next]_vars

(* ------------------------- claims: samplers ------------------------- *)
Samplers == {"sample", "cond_sample"}
Sampling == call.method \in Samplers
Returned(o) == pc[o] = "done"
Last(s) == s[Len(s)]
MinLen(a, b) == IF Len(a) < Len(b) THEN Len(a) ELSE Len(b)
BatchSize == Len(call.noise)
\* The network has conditional capability: it has a class count.
Conditional == net.num_classes # NoClasses

\* What a state x of the integration is returned as: decoded (lrf only),
\* limited to [-1, 1] and mapped to [0, 1].
In01(x) == (Clip(x, 0 - Scale, Scale) + Scale) \div 2
Returned01(o, x) ==
    [i \in 1..Len(x) |->
        In01(IF o = "lrf"
             THEN VaeDecode(vae, (x[i] * LatentScaleDen) \div LatentScaleNum)
             ELSE x[i])]

\* The t of the k-th query of o, as one number (cond_sample passes it repeated
\* over the batch).
QueryT(o, k) == t_span[o][k]
QueryTAsPassed(o, k) ==
    IF call.method = "sample" THEN QueryT(o, k)
    ELSE [i \in 1..BatchSize |-> QueryT(o, k)]

\* The velocity the network returned to the k-th query of o.
VelocityAt(o, k) ==
    IF call.method = "sample"
    THEN NetCall(queries[o][k].z, QueryT(o, k), None)
    ELSE ForwardWithCfg(queries[o][k].z, QueryT(o, k), call.classes, call.cfg_scale)

\* C1: with return_all_steps, sample and cond_sample of both classes return a
\* trajectory of sampling_steps + 1 elements (sampling_steps >= 0), ordered by
\* step: the first is the initial noise as returned (no query made yet), the
\* k-th is the state the k-th query saw, the last is the returned sample.
C1_Trajectory ==
    \A o \in Objs :
        (Sampling /\ Returned(o) /\ call.return_all_steps) =>
            LET r == Val(result[o])
                tr == Val(r.all_steps)
            IN  /\ Len(tr) = call.sampling_steps + 1
                /\ tr[1] = Returned01(o, call.noise)
                /\ \A k \in 1..Len(queries[o]) : tr[k] = Returned01(o, queries[o][k].z)
                /\ Last(tr) = r.z

C1_Witness ==
    /\ Sampling /\ call.return_all_steps /\ call.sampling_steps = 2
    /\ BatchSize >= 1
    /\ Returned("lrf") /\ Returned("rf")
    /\ Len(Val(Val(result["lrf"]).all_steps)) = 3
    /\ Val(Val(result["rf"]).all_steps)[1] # Val(Val(result["rf"]).all_steps)[3]

\* C2 as stated: for every sampling_steps >= 1 the network is queried
\* sampling_steps times, at strictly descending t, first at t = 1 and last
\* at t = 0.
C2_Original ==
    \A o \in Objs :
        (Sampling /\ Returned(o) /\ call.sampling_steps >= 1) =>
            /\ Len(queries[o]) = call.sampling_steps
            /\ queries[o][1].t = QueryTAsPassed(o, 1)
            /\ QueryT(o, 1) = Scale
            /\ QueryT(o, Len(queries[o])) = 0
            /\ \A k \in 1..(Len(queries[o]) - 1) : QueryT(o, k) > QueryT(o, k + 1)

\* C2 amended: for every sampling_steps >= 1 the network is queried
\* sampling_steps times; for sampling_steps >= 2 the k-th query is at
\* t = (sampling_steps - k) / (sampling_steps - 1), so strictly descending from
\* t = 1 (first) to t = 0 (last); for sampling_steps = 1 the one query is at
\* t = 0.
C2_QueryTimes ==
    \A o \in Objs :
        (Sampling /\ Returned(o) /\ call.sampling_steps >= 1) =>
            LET n == call.sampling_steps
            IN  /\ Len(queries[o]) = n
                /\ \A k \in 1..n :
                     /\ queries[o][k].t = QueryTAsPassed(o, k)
                     /\ IF n = 1 THEN QueryT(o, k) = 0
                        ELSE QueryT(o, k) * (n - 1) = (n - k) * Scale
                /\ n >= 2 => /\ QueryT(o, 1) = Scale
                             /\ QueryT(o, n) = 0
                             /\ \A k \in 1..(n - 1) : QueryT(o, k) > QueryT(o, k + 1)

C2_Witness ==
    /\ call.method = "cond_sample" /\ call.sampling_steps = 3 /\ BatchSize = 2
    /\ Returned("rf")
    /\ Len(queries["rf"]) = 3
    /\ queries["rf"][2].t = <<Scale \div 2, Scale \div 2>>

\* C3 as stated: for every sampling_steps >= 2 each update moves z by
\* v_t / sampling_steps and two consecutive queries are 1 / sampling_steps
\* apart in t.
C3_Original ==
    \A o \in Objs :
        (Sampling /\ call.sampling_steps >= 2) =>
            /\ \A k \in 1..Len(queries[o]) :
                  images[o][k + 1] =
                      VecSub(images[o][k], VecDiv(VelocityAt(o, k), call.sampling_steps))
            /\ \A k \in 1..(Len(queries[o]) - 1) :
                  (QueryT(o, k) - QueryT(o, k + 1)) * call.sampling_steps = Scale

\* C4 as stated: with sampling_steps = 0 the call divides by zero in the update
\* and returns no result.
C4_Original ==
    \A o \in Objs :
        (Sampling /\ call.sampling_steps = 0) => ~Returned(o)

\* C4 amended: sampling_steps = 0 is not rejected; the loop body runs zero
\* times, so there is no network query and no update (no division), and the
\* call returns the initial noise, clipped and mapped to [0, 1] (decoded first
\* in the latent class), with a trajectory of that one element.
C4_ZeroSteps ==
    \A o \in Objs :
        (Sampling /\ call.sampling_steps = 0) =>
            /\ pc[o] \in {"called", "loop", "done", "AssertionError"}
            /\ pc[o] = "AssertionError" => (call.method = "cond_sample" /\ ~Conditional)
            /\ queries[o] = <<>>
            /\ pc[o] \in {"loop", "done"} => images[o] = <<call.noise>>
            /\ Returned(o) =>
                 /\ Val(result[o]).z = Returned01(o, call.noise)
                 /\ call.return_all_steps =>
                      Val(Val(result[o]).all_steps) = <<Returned01(o, call.noise)>>

C4_Witness ==
    /\ call.method = "sample" /\ call.sampling_steps = 0 /\ BatchSize = 2
    /\ call.return_all_steps
    /\ Returned("rf") /\ Returned("lrf")
    /\ queries["rf"] = <<>> /\ queries["lrf"] = <<>>

\* C5: forward of a conditional network with c = None, and cond_sample on a
\* network without conditional capability, fail (in both classes), and fail
\* before any network query, any Euler step and any result.
C5_ConfigErrors ==
    \A o \in Objs :
        /\ (call.method = "forward" /\ Conditional /\ call.c = None /\ pc[o] # "called")
              => pc[o] = "AssertionError"
        /\ (call.method = "cond_sample" /\ ~Conditional /\ pc[o] # "called")
              => pc[o] = "AssertionError"
        /\ pc[o] = "AssertionError" =>
              /\ queries[o] = <<>>
              /\ images[o] = <<>>
              /\ decodes[o] = <<>>
              /\ result[o] = None

C5_Witness ==
    /\ call.method = "forward" /\ Conditional /\ call.c = None
    /\ pc["rf"] = "AssertionError" /\ pc["lrf"] = "AssertionError"

\* C6: for sampling_steps >= 1 the returned images have one entry per requested
\* sample and every value is in [0, 1], and so has every element of the
\* returned trajectory: the state is clipped to [-1, 1] and mapped to [0, 1]
\* once.
C6_Range ==
    \A o \in Objs :
        (Sampling /\ Returned(o) /\ call.sampling_steps >= 1) =>
            LET r == Val(result[o])
            IN  /\ Len(r.z) = BatchSize
                /\ \A i \in 1..Len(r.z) : r.z[i] \in 0..Scale
                /\ r.z = Returned01(o, Last(images[o]))
                /\ call.return_all_steps =>
                     \A k \in 1..Len(Val(r.all_steps)) :
                        /\ Len(Val(r.all_steps)[k]) = BatchSize
                        /\ \A i \in 1..BatchSize : Val(r.all_steps)[k][i] \in 0..Scale
                        /\ Val(r.all_steps)[k] = Returned01(o, images[o][k])

C6_Witness ==
    /\ call.method = "sample" /\ call.sampling_steps = 1 /\ BatchSize = 2
    /\ Returned("rf")
    /\ \E i \in 1..2 : Last(images["rf"])[i] > Scale /\ Val(result["rf"]).z[i] = Scale
    /\ \E i \in 1..2 : Last(images["rf"])[i] \in (0 - Scale)..Scale

\* C7: on the same noise, network and arguments, the latent sampler makes the
\* same network queries and the same z updates as the pixel sampler; decode is
\* not called inside the loop; it is called once on the integrated z and, with
\* return_all_steps, once on each of the sampling_steps + 1 trajectory states,
\* before the clip and the remap.
C7_SameIntegration ==
    Sampling =>
        /\ \A k \in 1..MinLen(queries["rf"], queries["lrf"]) :
              queries["lrf"][k] = queries["rf"][k]
        /\ \A k \in 1..MinLen(images["rf"], images["lrf"]) :
              images["lrf"][k] = images["rf"][k]
        /\ decodes["rf"] = <<>>
        /\ pc["lrf"] # "done" => decodes["lrf"] = <<>>
        /\ (Returned("rf") /\ pc["lrf"] # "called") =>
              pc["lrf"] \in {"loop", "done"}
        /\ (Returned("lrf") /\ pc["rf"] # "called") =>
              pc["rf"] \in {"loop", "done"}
        /\ Returned("lrf") =>
              /\ Len(queries["lrf"]) = call.sampling_steps
              /\ decodes["lrf"] =
                    <<Last(images["lrf"])>>
                        \o (IF call.return_all_steps THEN images["lrf"] ELSE <<>>)
              /\ Len(decodes["lrf"]) =
                    1 + (IF call.return_all_steps THEN call.sampling_steps + 1 ELSE 0)
              /\ Val(result["lrf"]).z = Returned01("lrf", Last(images["lrf"]))
        /\ (Returned("lrf") /\ Returned("rf")) =>
              /\ queries["lrf"] = queries["rf"]
              /\ images["lrf"] = images["rf"]

C7_Witness ==
    /\ call.method = "cond_sample" /\ call.sampling_steps = 2 /\ BatchSize >= 1
    /\ call.return_all_steps
    /\ Returned("lrf") /\ Returned("rf")
    /\ Len(decodes["lrf"]) = 4
    /\ Val(result["lrf"]).z # Val(result["rf"]).z

(* ------------------------------ Trainer ------------------------------- *)
MaxTrainStep == 2
NStepsChoices == {1, 2}
IntervalChoices == {1, 2}
ParamVals == {1, 3}

\* What an accelerate.Accelerator object has (trainer.py reads .device,
\* .scaler, ...); there is no attribute "scalar".
AcceleratorAttrs == {"device", "scaler", "prepare", "autocast", "backward", "log"}

\* LitEma: the shadow parameters start as a copy of the model's
LitEma_init(p) == [shadow |-> p, collected |-> None]
\* model_ema(model): the shadow moves toward the model's parameters
LitEma_update(e, p) == [e EXCEPT !.shadow = e.shadow - (e.shadow - p) \div 2]
\* model_ema.store(parameters)
LitEma_store(e, p) == [e EXCEPT !.collected = Some(p)]
\* model_ema.copy_to(model): the parameters the model gets
LitEma_copy_to(e) == e.shadow
\* model_ema.restore(parameters): the parameters the model gets
LitEma_restore(e) == Val(e.collected)

\* log_dir / f"model-step{step}.ckpt": one path per step value
CkptPath(k) == k

FileWrite(d, path, sd) ==
    [q \in DOMAIN d \cup {path} |-> IF q = path THEN sd ELSE d[q]]
FileRemove(d, path) == [q \in DOMAIN d \ {path} |-> d[q]]

\* save_ckpt, trainer.py 114-122: the dictionary that is saved
StateDict ==
    LET keys == {"model", "opt", "step"}
                    \cup (IF scaler # None THEN {"scaler"} ELSE {})
                    \cup (IF hp.use_ema THEN {"model_ema"} ELSE {})
    IN  [k \in keys |->
            CASE k = "model" -> params
              [] k = "opt" -> opt
              [] k = "step" -> step
              [] k = "scaler" -> Val(scaler)
              [] k = "model_ema" -> ema.shadow]

\* where train() goes on after the step counter was advanced (trainer.py 188, 195)
AfterStep(k) ==
    IF k % hp.save_and_sample_interval = 0 THEN "log_enter"
    ELSE IF k % hp.fid_eval_interval = 0 THEN "fid_enter"
    ELSE "train"
AfterSave(k) == IF k % hp.fid_eval_interval = 0 THEN "fid_enter" ELSE "train"

\* train(), trainer.py 150-156: the call starts its loop of n_steps iterations
train_begin ==
    /\ tpc = "idle"
    /\ step + hp.n_steps <= MaxTrainStep
    /\ tpc' = "train"
    /\ iters' = hp.n_steps
    /\ outcome' = [call |-> "train", exc |-> "None"]
    /\ loaded' = None
    /\ UNCHANGED <<hp, step, params, opt, scaler, ema, ckpt_paths, disk, entry_params>>
    /\ UNCHANGED samplerVars

\* train(), trainer.py 157-186: one optimisation step, the EMA update, step += 1
train_iter ==
    /\ tpc = "train" /\ iters > 0
    /\ \E p \in ParamVals :
         /\ params' = p
         /\ ema' = IF hp.use_ema THEN LitEma_update(ema, p) ELSE ema
    /\ opt' = opt + 1
    /\ scaler' = IF scaler = None THEN None ELSE Some((Val(scaler) + 1) % 2)
    /\ step' = step + 1
    /\ iters' = iters - 1
    /\ tpc' = AfterStep(step + 1)
    /\ UNCHANGED <<hp, ckpt_paths, disk, outcome, loaded, entry_params>>
    /\ UNCHANGED samplerVars

\* train(), trainer.py 205: the loop is over
train_end ==
    /\ tpc = "train" /\ iters = 0
    /\ tpc' = "idle"
    /\ UNCHANGED <<hp, step, params, opt, scaler, ema, ckpt_paths, disk, iters,
                   outcome, loaded, entry_params>>
    /\ UNCHANGED samplerVars

\* ema_scope, trainer.py 104-108: up to the yield (entered from log_samples,
\* trainer.py 208, or around fid_score, trainer.py 198)
ema_scope_enter ==
    /\ tpc \in {"log_enter", "fid_enter"}
    /\ entry_params' = Some(params)
    /\ IF hp.use_ema
       THEN /\ ema' = LitEma_store(ema, params)
            /\ params' = LitEma_copy_to(ema)
       ELSE UNCHANGED <<ema, params>>
    /\ tpc' = IF tpc = "log_enter" THEN "log_body" ELSE "fid_body"
    /\ UNCHANGED <<hp, step, opt, scaler, ckpt_paths, disk, iters, outcome, loaded>>
    /\ UNCHANGED samplerVars

\* the body of the with block (sampling, trainer.py 209-315, or fid_score,
\* trainer.py 199) returns
scope_body_returns ==
    /\ tpc \in {"log_body", "fid_body"}
    /\ tpc' = IF tpc = "log_body" THEN "log_returned" ELSE "fid_returned"
    /\ UNCHANGED <<hp, step, params, opt, scaler, ema, ckpt_paths, disk, iters,
                   outcome, loaded, entry_params>>
    /\ UNCHANGED samplerVars

\* the body of the with block raises
scope_body_raises ==
    /\ tpc \in {"log_body", "fid_body"}
    /\ tpc' = IF tpc = "log_body" THEN "log_raised" ELSE "fid_raised"
    /\ UNCHANGED <<hp, step, params, opt, scaler, ema, ckpt_paths, disk, iters,
                   outcome, loaded, entry_params>>
    /\ UNCHANGED samplerVars

\* Faulty variant of ema_scope_exit: the restore is not in a finally clause, so
\* it happens only when the body returned
ema_scope_exit_no_finally ==
    /\ tpc \in {"log_returned", "log_raised", "fid_returned", "fid_raised"}
    /\ params' = IF hp.use_ema /\ tpc \in {"log_returned", "fid_returned"}
                 THEN LitEma_restore(ema) ELSE params
    /\ IF tpc \in {"log_raised", "fid_raised"}
       THEN /\ tpc' = "idle"
            /\ iters' = 0
            /\ outcome' = [call |-> "train", exc |-> "BodyError"]
       ELSE /\ tpc' = IF tpc = "log_returned" THEN "save" ELSE "train"
            /\ UNCHANGED <<iters, outcome>>
    /\ UNCHANGED <<hp, step, opt, scaler, ema, ckpt_paths, disk, loaded, entry_params>>
    /\ UNCHANGED samplerVars

\* ema_scope, trainer.py 109-111: the finally clause, then the scope is left; an
\* exception of the body goes on out of train()
ema_scope_exit ==
    /\ tpc \in {"log_returned", "log_raised", "fid_returned", "fid_raised"}
    /\ params' = IF hp.use_ema THEN LitEma_restore(ema) ELSE params
    /\ IF tpc \in {"log_raised", "fid_raised"}
       THEN /\ tpc' = "idle"
            /\ iters' = 0
            /\ outcome' = [call |-> "train", exc |-> "BodyError"]
       ELSE /\ tpc' = IF tpc = "log_returned" THEN "save" ELSE "train"
            /\ UNCHANGED <<iters, outcome>>
    /\ UNCHANGED <<hp, step, opt, scaler, ema, ckpt_paths, disk, loaded, entry_params>>
    /\ UNCHANGED samplerVars

\* save_ckpt, trainer.py 113-131, called by train() (trainer.py 192) or by the
\* Trainer's user
save_ckpt ==
    /\ tpc \in {"save", "idle"}
    /\ LET ckpt_path == CkptPath(step)
           saved == FileWrite(disk, ckpt_path, StateDict)
           paths == Append(ckpt_paths, ckpt_path)
       IN  /\ loaded' = IF tpc = "idle" THEN None ELSE loaded
           /\ IF Len(paths) > 3
              THEN /\ ckpt_paths' = Tail(paths)
                   /\ IF Head(paths) \in DOMAIN saved
                      THEN /\ disk' = FileRemove(saved, Head(paths))
                           /\ outcome' = IF tpc = "idle"
                                         THEN [call |-> "save_ckpt", exc |-> "None"]
                                         ELSE outcome
                           /\ tpc' = IF tpc = "idle" THEN "idle" ELSE AfterSave(step)
                           /\ UNCHANGED iters
                      ELSE /\ disk' = saved
                           /\ outcome' = [call |-> IF tpc = "idle" THEN "save_ckpt"
                                                   ELSE "train",
                                          exc |-> "FileNotFoundError"]
                           /\ tpc' = "idle"
                           /\ iters' = 0
              ELSE /\ ckpt_paths' = paths
                   /\ disk' = saved
                   /\ outcome' = IF tpc = "idle"
                                 THEN [call |-> "save_ckpt", exc |-> "None"]
                                 ELSE outcome
                   /\ tpc' = IF tpc = "idle" THEN "idle" ELSE AfterSave(step)
                   /\ UNCHANGED iters
    /\ UNCHANGED <<hp, step, params, opt, scaler, ema, entry_params>>
    /\ UNCHANGED samplerVars

\* load_ckpt, trainer.py 133-148, on a checkpoint file that save_ckpt wrote
load_ckpt ==
    /\ tpc = "idle"
    /\ \E ckpt_path \in DOMAIN disk :
         LET state_dict == disk[ckpt_path]
         IN  /\ loaded' = Some(state_dict)
             /\ params' = state_dict["model"]
             /\ opt' = state_dict["opt"]
             /\ step' = state_dict["step"]
             /\ IF "scalar" \notin AcceleratorAttrs
                THEN /\ outcome' = [call |-> "load_ckpt", exc |-> "AttributeError"]
                     /\ UNCHANGED <<scaler, ema>>
                ELSE IF scaler # None /\ "scalar" \notin DOMAIN state_dict
                THEN /\ outcome' = [call |-> "load_ckpt", exc |-> "KeyError"]
                     /\ UNCHANGED <<scaler, ema>>
                ELSE /\ scaler' = IF scaler # None THEN Some(state_dict["scalar"])
                                  ELSE scaler
                     /\ ema' = IF hp.use_ema
                               THEN [ema EXCEPT !.shadow = state_dict["model_ema"]]
                               ELSE ema
                     /\ outcome' = [call |-> "load_ckpt", exc |-> "None"]
    /\ UNCHANGED <<hp, ckpt_paths, disk, tpc, iters, entry_params>>
    /\ UNCHANGED samplerVars

\* No model object takes part in this specification.
SamplerParked ==
    /\ net = [id |-> "lin", num_classes |-> NoClasses]
    /\ vae = "same"
    /\ call = NoCall
    /\ pc = [o \in Objs |-> "idle"]
    /\ z = [o \in Objs |-> None]
    /\ images = [o \in Objs |-> <<>>]
    /\ t_span = [o \in Objs |-> <<>>]
    /\ queries = [o \in Objs |-> <<>>]
    /\ decodes = [o \in Objs |-> <<>>]
    /\ result = [o \in Objs |-> None]

\* After Trainer.__init__ (trainer.py 57-100)
TrainerInit ==
    /\ hp \in [n_steps : NStepsChoices,
               save_and_sample_interval : IntervalChoices,
               fid_eval_interval : IntervalChoices,
               use_ema : BOOLEAN]
    /\ step = 0
    /\ params \in ParamVals
    /\ opt = 0
    /\ scaler \in {None, Some(0)}
    /\ ema = IF hp.use_ema THEN LitEma_init(params) ELSE [shadow |-> 0, collected |-> None]
    /\ ckpt_paths = <<>>
    /\ disk = <<>>
    /\ tpc = "idle"
    /\ iters = 0
    /\ outcome = [call |-> "none", exc |-> "None"]
    /\ loaded = None
    /\ entry_params = None
    /\ SamplerParked

TrainerNext ==
    \/ train_begin
    \/ train_iter
    \/ train_end
    \/ ema_scope_enter
    \/ scope_body_returns
    \/ scope_body_raises
    \/ ema_scope_exit
    \/ save_ckpt
    \/ load_ckpt

TrainerSpec == TrainerInit /\ [][TrainerNext]_vars

(* -------------------------- claims: Trainer --------------------------- *)
InScope ==
    tpc \in {"log_body", "fid_body", "log_returned", "log_raised", "fid_returned",
             "fid_raised"}
AtScopeExit == tpc \in {"log_returned", "log_raised", "fid_returned", "fid_raised"}

\* C8 as stated: after any sequence of save_ckpt calls (a step value may be
\* saved more than once) ckpt_paths holds at most 3 checkpoints and every path
\* in it names a checkpoint file that exists.
C8_Original ==
    /\ Len(ckpt_paths) <= 3
    /\ \A i \in 1..Len(ckpt_paths) : ckpt_paths[i] \in DOMAIN disk

\* C9: ema_scope leaves the training parameters unchanged. With use_ema the
\* model holds the EMA shadow parameters while the body runs, and leaving the
\* scope (the body returned or raised) puts back the parameters of the entry;
\* without use_ema the parameters are not touched. The dictionary save_ckpt
\* writes right after log_samples therefore has the training parameters under
\* "model".
C9_EmaScope ==
    /\ [](InScope =>
            IF hp.use_ema
            THEN params = ema.shadow /\ ema.collected = entry_params
            ELSE params = Val(entry_params))
    /\ [][AtScopeExit => params' = Val(entry_params)]_vars
    /\ [][(~hp.use_ema /\ (InScope \/ tpc \in {"log_enter", "fid_enter"}))
             => params' = params]_vars
    /\ [](tpc = "save" => StateDict["model"] = Val(entry_params))

C9_Witness ==
    /\ hp.use_ema
    /\ tpc = "idle" /\ outcome = [call |-> "train", exc |-> "BodyError"]
    /\ ckpt_paths # <<>>
    /\ params = Val(entry_params)
    /\ params # ema.shadow

\* C10 as stated: load_ckpt of a checkpoint written by save_ckpt ends without
\* an error and restores the step counter, the model state, the optimizer
\* state, the EMA state when use_ema is set and the scaler state when the
\* accelerator has a scaler.
C10_Original ==
    outcome.call = "load_ckpt" =>
        LET state_dict == Val(loaded)
        IN  /\ outcome.exc = "None"
            /\ step = state_dict["step"]
            /\ params = state_dict["model"]
            /\ opt = state_dict["opt"]
            /\ hp.use_ema => ema.shadow = state_dict["model_ema"]
            /\ scaler # None => Val(scaler) = state_dict["scaler"]
====
